---- MODULE Spec2Model ----
(***************************************************************************)
(* StoryWeaver AI: the story pipeline (Idea -> Story -> Persist -> Done),  *)
(* the idea generator agent and the Notion persistence adapter.            *)
(* Strings are sequences of one-character strings.                         *)
(***************************************************************************)
EXTENDS Integers, Sequences, FiniteSets, TLC

\* ---------------------------------------------------------------- bounds
MaxContentLen == 3
MaxMsgLen == 1
Slack == 2
MaxOtherSteps == 5
NumIds == 3

\* ------------------------------------------------------ program constants
TruncLimit == 1900
TitleLimit == 100
MaxTokens == 800

\* ------------------------------------------------------- string helpers
Whitespace == {" "}
Alphabet == {" ", "a"}

RECURSIVE SeqsUpTo(_, _)
SeqsUpTo(S, n) == IF n = 0 THEN {<<>>}
                  ELSE SeqsUpTo(S, n - 1) \cup {Append(s, c) : s \in SeqsUpTo(S, n - 1), c \in S}

Str(n, c) == [i \in 1..n |-> c]

IsPrefix(p, s) == Len(p) <= Len(s) /\ SubSeq(s, 1, Len(p)) = p

Get(d, k, default) == IF k \in DOMAIN d THEN d[k] ELSE default

\* Python s[:k] (k may be negative)
PySliceTo(s, k) == IF k >= 0 THEN SubSeq(s, 1, IF k < Len(s) THEN k ELSE Len(s))
                   ELSE SubSeq(s, 1, IF Len(s) + k > 0 THEN Len(s) + k ELSE 0)

RECURSIVE LStrip(_)
LStrip(s) == IF s # <<>> /\ Head(s) \in Whitespace THEN LStrip(Tail(s)) ELSE s
RECURSIVE RStrip(_)
RStrip(s) == IF s # <<>> /\ s[Len(s)] \in Whitespace THEN RStrip(SubSeq(s, 1, Len(s) - 1)) ELSE s
\* Python str.strip()
Strip(s) == RStrip(LStrip(s))

\* "Error generating ideas: "
ErrIdeasPrefix == <<"E","r","r","o","r"," ","g","e","n","e","r","a","t","i","n","g",
                    " ","i","d","e","a","s",":"," ">>
\* "Error generating story: " (story stage, spec-modelled)
ErrStoryPrefix == <<"E","r","r","o","r"," ","g","e","n","e","r","a","t","i","n","g",
                    " ","s","t","o","r","y",":"," ">>

\* ------------------------------------------------ IdeaGeneratorAgent
\* Environment read by IdeaGeneratorAgent.__init__ ("" = unset or empty for
\* the azure fields; api_key distinguishes "unset" (None) from "" (empty));
\* azure_key_env: AZURE_OPENAI_API_KEY, read by the AzureOpenAI client itself
ApiTypes == {"openai", "azure", "Azure"}
Lower(t) == IF t = "Azure" THEN "azure" ELSE t
EnvValues == {"", "v"}
Envs == [api_type : ApiTypes, api_key : {"unset", "", "k"}, model : {"gpt-4o"},
         api_base : EnvValues, api_version : EnvValues, deployment_name : EnvValues,
         azure_key_env : BOOLEAN]

\* __init__: the client class selected by api_type.lower()
Backend(e) == IF Lower(e.api_type) = "azure" THEN "AzureOpenAI" ELSE "OpenAI"

\* __init__ checking only api_base and api_version
ConstructRaisesNoDeployment(e) ==
    Lower(e.api_type) = "azure" /\ ~(e.api_base # "" /\ e.api_version # "")

\* __init__ raises RuntimeError on an incomplete azure configuration
ConstructRaises(e) ==
    Lower(e.api_type) = "azure"
    /\ ~(e.api_base # "" /\ e.api_version # "" /\ e.deployment_name # "")

\* Exception raised by IdeaGeneratorAgent() or "none": the RuntimeError of the
\* azure check, else the OpenAIError of the client constructor on a missing key
ConstructError(e) ==
    IF ConstructRaises(e) THEN "RuntimeError"
    ELSE IF Lower(e.api_type) = "azure"
         THEN (IF e.api_key = "unset" /\ ~e.azure_key_env THEN "OpenAIError" ELSE "none")
         ELSE (IF e.api_key = "unset" THEN "OpenAIError" ELSE "none")

\* Backend responses of chat.completions.create
\* (kind "null": message.content is None)
Contents == SeqsUpTo(Alphabet, MaxContentLen) \cup {ErrIdeasPrefix \o <<"a">>}
Msgs == SeqsUpTo({"x"}, MaxMsgLen)
\* (kind "err": the exception chat.completions.create raises; retryable for a
\* connection error, a timeout and a 408/409/429/5xx answer)
IdeaResponses == [kind : {"ok"}, content : Contents] \cup [kind : {"null"}]
                 \cup [kind : {"err"}, msg : Msgs, retryable : BOOLEAN]

\* default max_retries of the OpenAI / AzureOpenAI clients; __init__ builds
\* them without a max_retries argument
MaxRetries == 2

\* retries the client makes inside one chat.completions.create call that ends
\* with answer r: a retryable error answer is retried until the retries are
\* spent; any earlier answers were retryable errors
SdkRetries(r) == IF r.kind = "err" /\ r.retryable THEN {MaxRetries} ELSE 0..MaxRetries

\* the requests one chat.completions.create call sends: the same request,
\* once plus once per retry
SdkRequests(rq, n) == [i \in 1..(n + 1) |-> rq]

\* generate_idea_sync with the except clause dropping the prefix
GenerateIdeaSyncNoPrefix(r) ==
    CASE r.kind = "null" -> <<>>
      [] r.kind = "ok" -> IF r.content = <<>> THEN <<>> ELSE Strip(r.content)
      [] r.kind = "err" -> r.msg

\* generate_idea_sync treating empty content as a failure
GenerateIdeaSyncEmptyIsError(r) ==
    CASE r.kind = "null" -> ErrIdeasPrefix
      [] r.kind = "ok" -> IF r.content = <<>> THEN ErrIdeasPrefix ELSE Strip(r.content)
      [] r.kind = "err" -> ErrIdeasPrefix \o r.msg

\* generate_idea_sync: the "ideas" value it returns for a backend response
GenerateIdeaSync(r) ==
    CASE r.kind = "null" -> <<>>
      [] r.kind = "ok" -> IF r.content = <<>> THEN <<>> ELSE Strip(r.content)
      [] r.kind = "err" -> ErrIdeasPrefix \o r.msg

\* generate_idea (async) without the strip of the content
GenerateIdeaNoStrip(r) ==
    CASE r.kind = "null" -> <<>>
      [] r.kind = "ok" -> r.content
      [] r.kind = "err" -> ErrIdeasPrefix \o r.msg

\* generate_idea (async): the "ideas" value it returns for a backend response
GenerateIdea(r) ==
    CASE r.kind = "null" -> <<>>
      [] r.kind = "ok" -> IF r.content = <<>> THEN <<>> ELSE Strip(r.content)
      [] r.kind = "err" -> ErrIdeasPrefix \o r.msg

\* IDEA_GENERATOR_PROMPT_TEMPLATE.format(user_input=p): the fixed text before
\* and after {user_input} are single symbols
TemplateHead == <<"<template text before user_input>">>
TemplateTail == <<"<template text after user_input>">>
FormatIdeaPrompt(p) == TemplateHead \o p \o TemplateTail

Temperature == "0.9"

\* generate_idea_sync: the chat.completions.create request for prompt p
IdeaRequest(e, p) ==
    [client |-> Backend(e),
     model |-> IF Lower(e.api_type) = "azure" THEN e.deployment_name ELSE e.model,
     messages |-> <<[role |-> "user", content |-> FormatIdeaPrompt(p)]>>,
     max_tokens |-> MaxTokens,
     temperature |-> Temperature]

\* generate_idea (async): the chat.completions.create request for prompt p
IdeaRequestAsync(e, p) ==
    [client |-> Backend(e),
     model |-> IF Lower(e.api_type) = "azure" THEN e.deployment_name ELSE e.model,
     messages |-> <<[role |-> "user", content |-> FormatIdeaPrompt(p)]>>,
     max_tokens |-> MaxTokens,
     temperature |-> Temperature]

\* state.get("prompt") without the "" default: str(None) is formatted in
NoneText == <<"N", "o", "n", "e">>
UserPromptNoDefault(s) == Get(s, "prompt", NoneText)

\* ideaAgentNode: user_prompt = state.get("prompt", "")
UserPrompt(s) == Get(s, "prompt", <<>>)

\* ideaAgentNode returning the prompt along with the ideas
IdeaDeltaWithPrompt(p, r) == [prompt |-> p, ideas |-> GenerateIdeaSync(r)]

\* ideaAgentNode's returned delta for user_prompt p
IdeaDelta(p, r) == [ideas |-> GenerateIdeaSync(r)]

\* --------------------------------------------------------- pipeline state
Fields == {"prompt", "ideas", "setting", "characters", "conflict",
           "resolution", "story", "notion_page_id"}
StoryFields == {"setting", "characters", "conflict", "resolution", "story"}
Prompts == {<<"c">>, <<>>}
PageId == <<"i", "d">>
StoryTexts == {<<"s">>}
StoryResponses == [kind : {"ok"}, text : StoryTexts] \cup [kind : {"err"}, msg : Msgs]
NoResp == [kind |-> "none"]
NoReq == [op |-> "none"]

VARIABLES env, pc, st, hist, exc, requests, configChecks, ideaResp,
          deltas, writers, storeOutcome, persistResult, ideaReqs

VARIABLES sdata, req, tin, tout
\* sync/async Idea entry points run on the same input
VARIABLES eIn, eSync, eAsync
\* cooperative scheduler: ideaAgentNodeAsync task and one other task
VARIABLES loopOwner, aPc, bCount
\* one Notion page, two concurrent update_story_page callers, delete_story_page
VARIABLES page, clients, order, delRet
\* NotionStoryManager.__init__
VARIABLES nmIn, nmResult

pvars == <<env, pc, st, hist, exc, requests, configChecks, ideaResp,
           deltas, writers, storeOutcome, persistResult, ideaReqs>>

tvars == <<sdata, req, tin, tout>>
evars == <<eIn, eSync, eAsync>>
svars == <<loopOwner, aPc, bCount>>
gvars == <<page, clients, order, delRet>>
nvars == <<nmIn, nmResult>>

\* a state is a Python dict: a function whose domain is the set of present keys
Merge(s, d) == [f \in DOMAIN s \cup DOMAIN d |-> IF f \in DOMAIN d THEN d[f] ELSE s[f]]
Writers(w, d, stage) == [f \in Fields |-> IF f \in DOMAIN d THEN w[f] \cup {stage} ELSE w[f]]
EmptyDict == [f \in {} |-> <<>>]

Clients == {1, 2}
NoResult == [raised |-> "none", started |-> FALSE]
Dots == <<".", ".", ".">>
Heading(t) == [type |-> "heading_1", content |-> t]
Paragraph(t) == [type |-> "paragraph", content |-> t]
\* a page as create_story_page left it, its Status since set to "Draft"
InitialProps == ("Title" :> <<"t">>) @@ ("Status" :> "Draft")
                @@ ("Setting" :> <<"0">>) @@ ("Characters" :> <<"0">>)
InitialPage == [props |-> InitialProps,
                children |-> <<Heading("Generated Ideas"), Heading("Complete Story"),
                               Paragraph(<<"0">>)>>,
                archived |-> FALSE]

TAt == sdata = EmptyDict /\ req = NoReq /\ tin = <<>> /\ tout = <<>>
EAt == eIn = NoResult /\ eSync = NoResult /\ eAsync = NoResult
IdeaTasks == {"t1", "t2", "t3"}
SAt == loopOwner = "none" /\ aPc = [t \in IdeaTasks |-> "idle"] /\ bCount = 0
GAt == /\ page = InitialPage
       /\ clients = [c \in Clients |-> [pc |-> "idle", data |-> EmptyDict, sent |-> EmptyDict]]
       /\ order = <<>>
       /\ delRet = "none"
NAt == nmIn = NoResult /\ nmResult = NoResult

Init ==
    /\ env \in Envs
    /\ pc = "Idea"
    /\ \/ \E p \in Prompts : st = [prompt |-> p]
       \/ st = EmptyDict
    /\ hist = <<>>
    /\ exc = "none"
    /\ requests = 0
    /\ configChecks = 0
    /\ ideaResp = NoResp
    /\ deltas = [s \in {"Idea", "Story", "Persist"} |-> EmptyDict]
    /\ writers = [f \in Fields |-> IF f \in DOMAIN st
                                    THEN {"Entry"} ELSE {}]
    /\ storeOutcome = "none"
    /\ persistResult = "none"
    /\ ideaReqs = <<>>
    /\ TAt /\ EAt /\ SAt /\ GAt /\ NAt

\* ideaAgentNode whose generate_idea_sync lets a backend error propagate
IdeaAgentNodeUncaught ==
    /\ pc = "Idea"
    /\ hist' = Append(hist, "Idea")
    /\ configChecks' = configChecks + 1
    /\ IF ConstructError(env) # "none"
       THEN /\ pc' = "Aborted"
            /\ exc' = ConstructError(env)
            /\ UNCHANGED <<st, requests, ideaResp, deltas, writers, ideaReqs>>
       ELSE \E r \in IdeaResponses : \E n \in SdkRetries(r) :
            /\ requests' = requests + n + 1
            /\ ideaReqs' = ideaReqs \o SdkRequests(IdeaRequest(env, UserPrompt(st)), n)
            /\ ideaResp' = r
            /\ IF r.kind = "err"
               THEN /\ pc' = "Aborted"
                    /\ exc' = "APIError"
                    /\ UNCHANGED <<st, deltas, writers>>
               ELSE LET d == IdeaDelta(UserPrompt(st), r) IN
                    /\ st' = Merge(st, d)
                    /\ writers' = Writers(writers, d, "Idea")
                    /\ deltas' = [deltas EXCEPT !["Idea"] = d]
                    /\ pc' = "Story"
                    /\ exc' = exc
    /\ UNCHANGED <<env, storeOutcome, persistResult>>

\* ideaAgentNode (sync): state.get("prompt", ""), IdeaGeneratorAgent(),
\* generate_idea_sync(user_prompt), return the delta
IdeaAgentNode ==
    /\ pc = "Idea"
    /\ hist' = Append(hist, "Idea")
    /\ configChecks' = configChecks + 1
    /\ IF ConstructError(env) # "none"
       THEN /\ pc' = "Aborted"
            /\ exc' = ConstructError(env)
            /\ UNCHANGED <<st, requests, ideaResp, deltas, writers, ideaReqs>>
       ELSE \E r \in IdeaResponses : \E n \in SdkRetries(r) :
            /\ requests' = requests + n + 1
            /\ ideaReqs' = ideaReqs \o SdkRequests(IdeaRequest(env, UserPrompt(st)), n)
            /\ ideaResp' = r
            /\ LET d == IdeaDelta(UserPrompt(st), r) IN
               /\ st' = Merge(st, d)
               /\ writers' = Writers(writers, d, "Idea")
               /\ deltas' = [deltas EXCEPT !["Idea"] = d]
            /\ pc' = "Story"
            /\ exc' = exc
    /\ UNCHANGED <<env, storeOutcome, persistResult>>

\* ---------------------------------------------------- NotionStoryManager
\* create_story_page swallowing the failure and returning a page record
CreateStoryPageResultSwallow(outcome) == [raised |-> FALSE, id |-> PageId]

\* create_story_page's outcome for a Notion API outcome: the created page's
\* id, or the re-raised APIResponseError / other exception
CreateStoryPageResult(outcome) ==
    IF outcome = "ok" THEN [raised |-> FALSE, id |-> PageId]
    ELSE [raised |-> TRUE, id |-> <<>>]

\* story node (main.py, not in the sources): one completion request reading
\* prompt and ideas; writes the story fields or an error string
StoryDelta(r) ==
    IF r.kind = "ok" THEN [f \in StoryFields |-> r.text]
    ELSE [story |-> ErrStoryPrefix \o r.msg]

StoryAgentNode ==
    /\ pc = "Story"
    /\ hist' = Append(hist, "Story")
    /\ \E r \in StoryResponses :
          /\ st' = Merge(st, StoryDelta(r))
          /\ writers' = Writers(writers, StoryDelta(r), "Story")
          /\ deltas' = [deltas EXCEPT !["Story"] = StoryDelta(r)]
    /\ requests' = requests + 1
    /\ pc' = "Persist"
    /\ UNCHANGED <<env, exc, configChecks, ideaResp, storeOutcome, persistResult, ideaReqs>>

\* persist node (main.py, not in the sources): create_story_page(state); on
\* success the page id is recorded, on an exception nothing is recorded
PersistDelta(res) == IF res.raised THEN EmptyDict
                     ELSE [notion_page_id |-> res.id]

PersistNode ==
    /\ pc = "Persist"
    /\ hist' = Append(hist, "Persist")
    /\ \E outcome \in {"ok", "fail"} :
          LET res == CreateStoryPageResult(outcome) IN
          /\ st' = Merge(st, PersistDelta(res))
          /\ writers' = Writers(writers, PersistDelta(res), "Persist")
          /\ deltas' = [deltas EXCEPT !["Persist"] = PersistDelta(res)]
          /\ storeOutcome' = outcome
          /\ persistResult' = IF res.raised THEN "raised" ELSE "ok"
    /\ pc' = "Done"
    /\ UNCHANGED <<env, exc, requests, configChecks, ideaResp, ideaReqs>>

\* ------------------------------------------ NotionStoryManager requests
\* "Untitled Story"
UntitledStory == <<"U","n","t","i","t","l","e","d"," ","S","t","o","r","y">>
PropName == [setting |-> "Setting", characters |-> "Characters",
             conflict |-> "Conflict", resolution |-> "Resolution"]
PropFields == DOMAIN PropName

\* _truncate_text without the length check
TruncateTextNoCheck(text, max_length) == PySliceTo(text, max_length - 3) \o Dots

\* _truncate_text(text, max_length)
TruncateText(text, max_length) ==
    IF Len(text) <= max_length THEN text
    ELSE PySliceTo(text, max_length - 3) \o Dots

\* create_story_page: the properties it submits for story_data d
CreateProps(d) ==
    [k \in {"Title", "Status"} \cup {PropName[f] : f \in DOMAIN d \cap PropFields} |->
        CASE k = "Title" -> PySliceTo(Get(d, "prompt", UntitledStory), TitleLimit)
          [] k = "Status" -> "Generated"
          [] OTHER -> TruncateText(d[CHOOSE f \in PropFields : PropName[f] = k], TruncLimit)]

\* create_story_page writing the ideas paragraph even without ideas
CreateChildrenAlwaysIdeas(d) ==
    <<Heading("Generated Ideas"),
      Paragraph(TruncateText(Get(d, "ideas", <<>>), TruncLimit)),
      Heading("Complete Story"),
      Paragraph(TruncateText(Get(d, "story", <<>>), TruncLimit))>>

\* create_story_page: the children blocks it submits for story_data d
CreateChildren(d) ==
    <<Heading("Generated Ideas")>>
    \o (IF "ideas" \in DOMAIN d /\ d["ideas"] # <<>>
        THEN <<Paragraph(TruncateText(Get(d, "ideas", <<>>), TruncLimit))>> ELSE <<>>)
    \o <<Heading("Complete Story"),
         Paragraph(TruncateText(Get(d, "story", <<>>), TruncLimit))>>

\* update_story_page sending every story property, "" for absent keys
UpdatePropsClobber(d) ==
    [k \in (IF "prompt" \in DOMAIN d THEN {"Title"} ELSE {})
           \cup {PropName[f] : f \in PropFields} |->
        IF k = "Title" THEN PySliceTo(d["prompt"], TitleLimit)
        ELSE Get(d, CHOOSE f \in PropFields : PropName[f] = k, <<>>)]

\* update_story_page also resetting Status to "Generated"
UpdatePropsWithStatus(d) ==
    [k \in (IF "prompt" \in DOMAIN d THEN {"Title"} ELSE {}) \cup {"Status"}
           \cup {PropName[f] : f \in DOMAIN d \cap PropFields} |->
        CASE k = "Title" -> PySliceTo(d["prompt"], TitleLimit)
          [] k = "Status" -> "Generated"
          [] OTHER -> d[CHOOSE f \in PropFields : PropName[f] = k]]

\* update_story_page: the properties it submits for story_data d
UpdateProps(d) ==
    [k \in (IF "prompt" \in DOMAIN d THEN {"Title"} ELSE {})
           \cup {PropName[f] : f \in DOMAIN d \cap PropFields} |->
        IF k = "Title" THEN PySliceTo(d["prompt"], TitleLimit)
        ELSE d[CHOOSE f \in PropFields : PropName[f] = k]]

\* inputs of the store operations
TextLens == {0, 1} \cup ((TruncLimit - Slack)..(TruncLimit + Slack))
Texts == {Str(n, "a") : n \in TextLens}
         \cup {Str(n - 3, "a") \o Dots : n \in {m \in TextLens : m >= 3}}
DataKeys == {"setting", "characters", "conflict", "resolution", "ideas", "story"}
PromptValues == {<<"p">>, Str(TitleLimit + 1, "p")}
KeySets == {{}, DataKeys} \cup {{k} : k \in DataKeys}
StoryDatas ==
    UNION {{[k \in K |-> v] : v \in Texts} : K \in KeySets}
    \cup UNION {{[k \in K \cup {"prompt"} |-> IF k = "prompt" THEN p ELSE v] :
                   v \in Texts, p \in PromptValues} : K \in KeySets}

vars == <<pvars, tvars, evars, svars, gvars, nvars>>

Next == (IdeaAgentNode \/ StoryAgentNode \/ PersistNode)
        /\ UNCHANGED <<tvars, evars, svars, gvars, nvars>>

Spec == Init /\ [][Next]_vars

FairSpec == Spec /\ WF_vars(Next)

\* the request create_story_page(d) submits to pages.create
CreateStoryPage ==
    \E d \in StoryDatas :
        /\ sdata' = d
        /\ req' = [op |-> "create", props |-> CreateProps(d), children |-> CreateChildren(d)]
        /\ tin' = <<>> /\ tout' = <<>>

\* the request update_story_page(page_id, d) submits to pages.update
UpdateStoryPage ==
    \E d \in StoryDatas :
        /\ sdata' = d
        /\ req' = [op |-> "update", props |-> UpdateProps(d), children |-> <<>>]
        /\ tin' = <<>> /\ tout' = <<>>

\* a call of _truncate_text at the default limit
TruncateCall ==
    \E t \in Texts :
        /\ tin' = t
        /\ tout' = TruncateText(t, TruncLimit)
        /\ sdata' = EmptyDict /\ req' = NoReq

PipelineAt ==
    /\ env = [api_type |-> "openai", api_key |-> "k", model |-> "gpt-4o", api_base |-> "",
              api_version |-> "", deployment_name |-> "", azure_key_env |-> FALSE]
    /\ pc = "Idea" /\ st = [prompt |-> <<"c">>] /\ hist = <<>> /\ exc = "none"
    /\ requests = 0 /\ configChecks = 0 /\ ideaResp = NoResp
    /\ deltas = [s \in {"Idea", "Story", "Persist"} |-> EmptyDict]
    /\ writers = [f \in Fields |-> IF f = "prompt" THEN {"Entry"} ELSE {}]
    /\ storeOutcome = "none" /\ persistResult = "none" /\ ideaReqs = <<>>

StoreInit == PipelineAt /\ TAt /\ EAt /\ SAt /\ GAt /\ NAt

StoreNext == (CreateStoryPage \/ UpdateStoryPage \/ TruncateCall)
             /\ UNCHANGED <<pvars, evars, svars, gvars, nvars>>

StoreSpec == StoreInit /\ [][StoreNext]_vars

\* ------------------------------------------- sync and async Idea entries
\* ideaAgentNode(state) for environment e and backend answers ending in r
\* after n retries: the construction error, or the requests sent and the
\* returned delta
IdeaAgentNodeResult(e, s, r, n) ==
    IF ConstructError(e) # "none" THEN [raised |-> ConstructError(e), started |-> TRUE]
    ELSE [raised |-> "none", started |-> TRUE,
          reqs |-> SdkRequests(IdeaRequest(e, UserPrompt(s)), n),
          delta |-> IdeaDelta(UserPrompt(s), r)]

\* ideaAgentNodeAsync(state): the same, through generate_idea
IdeaAgentNodeAsyncResult(e, s, r, n) ==
    IF ConstructError(e) # "none" THEN [raised |-> ConstructError(e), started |-> TRUE]
    ELSE [raised |-> "none", started |-> TRUE,
          reqs |-> SdkRequests(IdeaRequestAsync(e, UserPrompt(s)), n),
          delta |-> [ideas |-> GenerateIdea(r)]]

EntryStates == {EmptyDict} \cup {[prompt |-> p] : p \in Prompts}

\* both entry points called on the same environment, state and backend answers
EntryCall ==
    /\ eIn = NoResult
    /\ \E e \in Envs, s \in EntryStates, r \in IdeaResponses : \E n \in SdkRetries(r) :
          /\ eIn' = [raised |-> "none", started |-> TRUE, env |-> e, st |-> s, resp |-> r,
                     retries |-> n]
          /\ eSync' = IdeaAgentNodeResult(e, s, r, n)
          /\ eAsync' = IdeaAgentNodeAsyncResult(e, s, r, n)
    /\ UNCHANGED <<pvars, tvars, svars, gvars, nvars>>

EntryInit == PipelineAt /\ TAt /\ EAt /\ SAt /\ GAt /\ NAt

EntrySpec == EntryInit /\ [][EntryCall]_vars

\* ------------------------------------------------ cooperative scheduling
\* generate_idea calls the synchronous client.chat.completions.create with
\* no await, so its task keeps the event loop while the request is in flight
AwaitsNetwork == FALSE

\* ideaAgentNodeAsync task t runs until the blocking completion call
AsyncIdeaStart ==
    \E t \in IdeaTasks :
        /\ aPc[t] = "idle" /\ loopOwner = "none"
        /\ aPc' = [aPc EXCEPT ![t] = "inflight"]
        /\ loopOwner' = IF AwaitsNetwork THEN "none" ELSE t
        /\ UNCHANGED bCount

\* the response arrives; the task returns its delta and releases the loop
AsyncIdeaFinish ==
    \E t \in IdeaTasks :
        /\ aPc[t] = "inflight"
        /\ (AwaitsNetwork \/ loopOwner = t)
        /\ aPc' = [aPc EXCEPT ![t] = "done"]
        /\ loopOwner' = "none"
        /\ UNCHANGED bCount

\* another coroutine on the same loop takes one step when the loop is free
OtherTaskStep ==
    /\ loopOwner = "none" /\ bCount < MaxOtherSteps
    /\ bCount' = bCount + 1
    /\ UNCHANGED <<aPc, loopOwner>>

SchedInit == PipelineAt /\ TAt /\ EAt /\ SAt /\ GAt /\ NAt

SchedNext == (AsyncIdeaStart \/ AsyncIdeaFinish \/ OtherTaskStep)
             /\ UNCHANGED <<pvars, tvars, evars, gvars, nvars>>

SchedSpec == SchedInit /\ [][SchedNext]_vars

\* ------------------------------------------------------ one Notion page
UpdKeys == {"prompt", "setting", "characters"}
Tag(c) == IF c = 1 THEN <<"1">> ELSE <<"2">>
\* story_data of caller c: each value tagged with the caller
UpdDatas(c) == {[k \in K |-> Tag(c)] : K \in SUBSET UpdKeys}

\* Notion pages.update(properties=...): the given properties replace the
\* page's values of those properties; others, the body and Status stay
PagesUpdate(pg, props) == [pg EXCEPT !.props = Merge(pg.props, props)]
\* Notion pages.update(archived=True)
PagesArchive(pg) == [pg EXCEPT !.archived = TRUE]

\* update_story_page builds its properties and sends pages.update
UpdateSend ==
    \E c \in Clients :
        /\ clients[c].pc = "idle"
        /\ \E d \in UpdDatas(c) :
              clients' = [clients EXCEPT ![c] = [pc |-> "sent", data |-> d, sent |-> UpdateProps(d)]]
        /\ UNCHANGED <<page, order, delRet>>

\* outcomes of one Notion request: answered, an error before the store
\* applied it (connection error, API error), or an error after the store
\* applied it (read timeout, gateway 5xx)
StoreOutcomes == {"ok", "failBefore", "failAfter"}

\* the store answers the request; update_story_page returns on "ok" and
\* re-raises every error. An archived page rejects the edit.
UpdateApplied ==
    \E c \in Clients :
        /\ clients[c].pc = "sent"
        /\ \E outcome \in StoreOutcomes :
              LET applied == outcome # "failBefore" /\ ~page.archived
              IN /\ page' = IF applied THEN PagesUpdate(page, clients[c].sent) ELSE page
                 /\ order' = IF applied THEN Append(order, c) ELSE order
                 /\ clients' = [clients EXCEPT ![c].pc =
                                  IF outcome = "ok" /\ ~page.archived THEN "done" ELSE "raised"]
        /\ UNCHANGED delRet

StatusValues == {"Generated", "Draft", "Published"}

\* notion_story_manager.update_story_status(page_id, new_status): builds a
\* NotionStoryManager and sends pages.update with Status only; every error
\* (construction, store, archived page) is printed and swallowed, and an
\* error after the store applied the request leaves Status written
UpdateStoryStatus ==
    /\ \E new_status \in StatusValues, applied \in BOOLEAN :
          page' = IF applied /\ ~page.archived
                  THEN PagesUpdate(page, "Status" :> new_status)
                  ELSE page
    /\ page' # page
    /\ UNCHANGED <<clients, order, delRet>>

\* delete_story_page swallowing the failure and returning False
DeleteStoryPageResultFalse(outcome) == [raised |-> FALSE, ret |-> outcome = "ok"]

\* delete_story_page: True after pages.update(archived=True), else re-raise
DeleteStoryPageResult(outcome) ==
    IF outcome = "ok" THEN [raised |-> FALSE, ret |-> TRUE]
    ELSE [raised |-> TRUE, ret |-> FALSE]

DeleteCall ==
    /\ delRet = "none"
    /\ \E outcome \in StoreOutcomes :
          LET res == DeleteStoryPageResult(outcome) IN
          /\ page' = IF outcome # "failBefore" THEN PagesArchive(page) ELSE page
          /\ delRet' = IF res.raised THEN "raised" ELSE IF res.ret THEN "True" ELSE "False"
    /\ UNCHANGED <<clients, order>>

PageInit == PipelineAt /\ TAt /\ EAt /\ SAt /\ GAt /\ NAt

PageNext == (UpdateSend \/ UpdateApplied \/ UpdateStoryStatus \/ DeleteCall)
            /\ UNCHANGED <<pvars, tvars, evars, svars, nvars>>

PageSpec == PageInit /\ [][PageNext]_vars

\* ------------------------------------------- NotionStoryManager.__init__
Ids == {"id" \o ToString(i) : i \in 1..NumIds}
Tokens == {"unset", ""} \cup Ids
DbArgs == {"none", ""} \cup Ids
DbEnvs == {"unset", ""} \cup Ids
Falsy == {"unset", "none", ""}

\* __init__ preferring NOTION_DATABASE_ID over the argument
NotionInitEnvFirst(tok, arg, envdb) ==
    IF tok \in Falsy THEN [raised |-> "ValueError", started |-> TRUE, dbid |-> "none", requests |-> 0]
    ELSE LET db == IF envdb \notin Falsy THEN envdb ELSE arg IN
         IF db \in Falsy THEN [raised |-> "ValueError", started |-> TRUE, dbid |-> "none", requests |-> 0]
         ELSE [raised |-> "none", started |-> TRUE, dbid |-> db, requests |-> 0]

\* __init__(database_id=arg) with NOTION_TOKEN tok and NOTION_DATABASE_ID envdb
NotionInit(tok, arg, envdb) ==
    IF tok \in Falsy THEN [raised |-> "ValueError", started |-> TRUE, dbid |-> "none", requests |-> 0]
    ELSE LET db == IF arg \notin Falsy THEN arg ELSE envdb IN
         IF db \in Falsy THEN [raised |-> "ValueError", started |-> TRUE, dbid |-> "none", requests |-> 0]
         ELSE [raised |-> "none", started |-> TRUE, dbid |-> db, requests |-> 0]

NotionConstruct ==
    /\ ~nmIn.started
    /\ \E tok \in Tokens, arg \in DbArgs, envdb \in DbEnvs :
          /\ nmIn' = [started |-> TRUE, tok |-> tok, arg |-> arg, envdb |-> envdb]
          /\ nmResult' = NotionInit(tok, arg, envdb)

\* a store call (get_story_pages, create, update, delete) on a built manager
NotionStoreCall ==
    /\ nmResult.started /\ nmResult.raised = "none" /\ nmResult.requests = 0
    /\ nmResult' = [nmResult EXCEPT !.requests = 1]
    /\ UNCHANGED nmIn

NotionInitState == PipelineAt /\ TAt /\ EAt /\ SAt /\ GAt /\ NAt

NotionNext == (NotionConstruct \/ NotionStoreCall)
              /\ UNCHANGED <<pvars, tvars, evars, svars, gvars>>

NotionSpec == NotionInitState /\ [][NotionNext]_vars

\* ===================================================== pipeline properties
ConfigValid == ConstructError(env) = "none"
WellFormedPrompt == "prompt" \in DOMAIN st /\ st["prompt"] # <<>>
Stages == <<"Idea", "Story", "Persist">>
StageRan(s) == \E i \in DOMAIN hist : hist[i] = s
ErrResponses == [kind : {"err"}, msg : Msgs, retryable : BOOLEAN]

\* C1: with a valid configuration and a non-empty prompt, the run goes through
\* Idea, Story, Persist in that order, each once, and reaches Done, whatever
\* (content or error string) each stage wrote.
C1_PipelineLinear ==
    (ConfigValid /\ WellFormedPrompt) =>
        /\ <>(pc = "Done")
        /\ [](IsPrefix(hist, Stages))
        /\ [](pc = "Done" => hist = Stages)

C1_Witness ==
    /\ pc = "Done" /\ ConfigValid /\ WellFormedPrompt
    /\ ideaResp \in ErrResponses

\* C2: a backend error in the Idea stage does not raise: ideas begins with
\* "Error generating ideas: " and the Story stage runs afterwards.
C2_IdeaErrorIsData ==
    /\ [](ideaResp \in ErrResponses => IsPrefix(ErrIdeasPrefix, st["ideas"]))
    /\ (ideaResp \in ErrResponses) ~> StageRan("Story")

C2_Witness == ideaResp \in ErrResponses /\ StageRan("Story")

\* C3: empty or null content is recorded as ideas = "" (success); the failure
\* path never yields ""; a success result begins with the error prefix only
\* if the (stripped) model text does.
C3_EmptySuccessDistinct ==
    /\ ideaResp.kind = "null" => st["ideas"] = <<>>
    /\ (ideaResp.kind = "ok" /\ Strip(ideaResp.content) = <<>>) => st["ideas"] = <<>>
    /\ ideaResp.kind = "err" => st["ideas"] # <<>>
    /\ (ideaResp.kind = "ok" /\ ~IsPrefix(ErrIdeasPrefix, Strip(ideaResp.content)))
         => ~IsPrefix(ErrIdeasPrefix, st["ideas"])

C3_Witness ==
    /\ ideaResp.kind = "ok" /\ ideaResp.content # <<>>
    /\ Strip(ideaResp.content) = <<>> /\ st["ideas"] = <<>>

\* C6: IdeaGeneratorAgent() with api_type azure and any of api_base,
\* api_version, deployment_name missing raises RuntimeError at construction,
\* before any completion request.
AzureIncomplete ==
    /\ Lower(env.api_type) = "azure"
    /\ (env.api_base = "" \/ env.api_version = "" \/ env.deployment_name = "")

C6_AzureIncompleteFailsFast ==
    (configChecks > 0 /\ AzureIncomplete) =>
        (exc = "RuntimeError" /\ requests = 0 /\ pc = "Aborted")

C6_Witness ==
    /\ configChecks > 0 /\ exc = "RuntimeError"
    /\ env.deployment_name = "" /\ env.api_base # "" /\ env.api_version # ""

\* C7 (as stated): a configuration error aborts the pipeline before the Idea
\* stage is entered; no stage execution raises a configuration error.
C7_ConfigErrorBeforeIdea == exc = "RuntimeError" => ~StageRan("Idea")

\* C8 (as stated): a persistence failure is returned as a value by upsert
\* (create_story_page), never raised.
C8_PersistFailureNotRaised == storeOutcome = "fail" => persistResult # "raised"

\* C8 (amended): create_story_page re-raises every store failure; the persist
\* step then records no page id and the earlier fields stay as they were.
C8_PersistFailureRaised ==
    /\ [](storeOutcome = "fail" =>
            (persistResult = "raised" /\ "notion_page_id" \notin DOMAIN st))
    /\ [][(pc = "Persist" /\ storeOutcome' = "fail") => st' = st]_vars

C8_Witness == storeOutcome = "fail" /\ pc = "Done" /\ "story" \in DOMAIN st

\* C9: in the final state notion_page_id is present iff persistence
\* succeeded, and the persist step changes no other field of the state.
C9_PageIdIffPersisted ==
    /\ [](pc = "Done" => (("notion_page_id" \in DOMAIN st) <=> storeOutcome = "ok"))
    /\ [][(pc = "Persist" /\ pc' = "Done") =>
            /\ \A f \in DOMAIN st : f \in DOMAIN st' /\ st'[f] = st[f]
            /\ DOMAIN st' \ DOMAIN st \subseteq {"notion_page_id"}]_vars

C9_Witness == pc = "Done" /\ storeOutcome = "fail" /\ StageRan("Persist")

\* C10: every field is written by at most one stage, the prompt never changes
\* once set, and the Idea stage's delta holds only the key "ideas".
C10_SingleWriter ==
    /\ [](\A f \in Fields : Cardinality(writers[f]) <= 1)
    /\ [][("prompt" \in DOMAIN st) =>
            ("prompt" \in DOMAIN st' /\ st'["prompt"] = st["prompt"])]_vars
    /\ [][("prompt" \notin DOMAIN st) => ("prompt" \notin DOMAIN st')]_vars
    /\ []((StageRan("Idea") /\ pc # "Aborted") => DOMAIN deltas["Idea"] = {"ideas"})

C10_Witness == pc = "Done" /\ "ideas" \in DOMAIN st /\ "notion_page_id" \in DOMAIN st

C14_OneRequestFixedParams ==
    /\ (StageRan("Idea") /\ pc # "Aborted") =>
          /\ Len(ideaReqs) = 1
          /\ ideaReqs[1].max_tokens = 800
          /\ ideaReqs[1].temperature = "0.9"
    /\ pc = "Aborted" => ideaReqs = <<>>

C13_YieldsWhileInFlight == \A t \in IdeaTasks : aPc[t] = "inflight" => loopOwner = "none"

\* C17 (as stated): api_type "azure" selects the AzureOpenAI client and
\* "openai" the direct OpenAI client; the direct backend requires api_key, and
\* constructing it without one fails with a configuration error.
C17_BackendSelection ==
    /\ Len(ideaReqs) > 0 =>
          ideaReqs[1].client = IF Lower(env.api_type) = "azure" THEN "AzureOpenAI" ELSE "OpenAI"
    /\ (configChecks > 0 /\ Lower(env.api_type) # "azure" /\ env.api_key \in {"unset", ""})
          => exc \in {"RuntimeError", "OpenAIError"}

\* ======================================================= store properties
\* pairs <<value in story_data, text submitted to the store>> of a request
SubmittedTexts(d, r) ==
    {<<d[f], r.props[PropName[f]]>> : f \in DOMAIN d \cap PropFields}
    \cup (IF r.op = "create"
          THEN {<<Get(d, "story", <<>>), r.children[Len(r.children)].content>>}
               \cup (IF "ideas" \in DOMAIN d /\ d["ideas"] # <<>>
                     THEN {<<d["ideas"], r.children[2].content>>} ELSE {})
          ELSE {})

StoredAsTruncated(o, t) ==
    IF Len(o) > TruncLimit
    THEN Len(t) = TruncLimit /\ SubSeq(t, TruncLimit - 2, TruncLimit) = Dots
    ELSE t = o

\* C4 (as stated): every text field submitted by create_story_page or
\* update_story_page that is longer than 1900 characters is submitted as
\* exactly 1900 characters ending in "..."; shorter ones are unchanged.
C4_AllWritesTruncated ==
    req.op # "none" => \A pr \in SubmittedTexts(sdata, req) : StoredAsTruncated(pr[1], pr[2])

\* C5: _truncate_text is idempotent at the default limit.
C5_TruncateIdempotent == TruncateText(tout, TruncLimit) = tout

C5_Witness == Len(tin) > TruncLimit /\ tout # tin

HasIdeas(d) == "ideas" \in DOMAIN d /\ d["ideas"] # <<>>

WrittenKey(d, k) ==
    IF k = "Title" THEN "prompt" \in DOMAIN d
    ELSE \E f \in DOMAIN d \cap PropFields : PropName[f] = k
ExpectedValue(d, k) ==
    IF k = "Title" THEN PySliceTo(d["prompt"], TitleLimit)
    ELSE d[CHOOSE f \in PropFields : PropName[f] = k]
LastValue(k) ==
    LET ws == {i \in DOMAIN order : WrittenKey(clients[order[i]].data, k)}
    IN IF ws = {} THEN InitialProps[k]
       ELSE ExpectedValue(clients[order[CHOOSE i \in ws : \A j \in ws : j <= i]].data, k)

\* C16: after two interleaved update_story_page calls on one page, each
\* property written by one of them holds the value sent by the update the
\* store applied last (last-writer-wins; no concurrency token), whether that
\* call returned or raised after the store applied it.
C16_LastWriterWins ==
    (\A c \in Clients : clients[c].pc \in {"done", "raised"}) =>
        \A k \in DOMAIN page.props :
            (\E i \in DOMAIN order : WrittenKey(clients[order[i]].data, k))
                => page.props[k] = LastValue(k)

C16_Witness ==
    /\ \A c \in Clients : "setting" \in DOMAIN clients[c].data
    /\ Len(order) = 2 /\ clients[order[2]].pc = "raised"
    /\ page.props["Setting"] = Tag(order[2])

\* C18: update_story_page changes only the properties whose keys are in
\* story_data (Title from prompt[:100]); Status, the body, the archived flag
\* and every other property are unchanged. When the store applies it, each
\* written property takes the sent value.
C18_UpdateFrame ==
    [][\A c \in Clients :
         (clients[c].pc = "sent" /\ clients'[c].pc \in {"done", "raised"}) =>
            /\ page'.children = page.children
            /\ page'.archived = page.archived
            /\ page'.props["Status"] = page.props["Status"]
            /\ DOMAIN page'.props \subseteq DOMAIN page.props
                  \cup {k \in {"Title"} \cup {PropName[f] : f \in PropFields} :
                          WrittenKey(clients[c].data, k)}
            /\ \A k \in DOMAIN page.props :
                  ~WrittenKey(clients[c].data, k) => page'.props[k] = page.props[k]
            /\ Len(order') > Len(order) =>
                  \A k \in {"Title"} \cup {PropName[f] : f \in PropFields} :
                      WrittenKey(clients[c].data, k) =>
                          /\ k \in DOMAIN page'.props
                          /\ page'.props[k] = ExpectedValue(clients[c].data, k)]_vars

C18_Witness ==
    \E c \in Clients :
        /\ clients[c].pc = "done"
        /\ "setting" \in DOMAIN clients[c].data /\ "characters" \notin DOMAIN clients[c].data
        /\ page.props["Status"] = "Draft"

\* C20: delete_story_page archives the page and returns True on success; on
\* failure it raises and never returns False (an error after the store
\* archived the page is re-raised too, with the page archived).
C20_DeleteArchivesOrRaises ==
    /\ delRet # "False"
    /\ delRet = "True" => page.archived

C20_Witness == delRet = "True" /\ page.archived

\* C19: NotionStoryManager() raises ValueError, before any store request,
\* when NOTION_TOKEN is missing or when neither the database_id argument nor
\* NOTION_DATABASE_ID is set; a given database_id argument wins over the
\* environment value.
C19_NotionInit ==
    nmResult.started =>
        /\ (nmResult.raised = "ValueError")
              <=> (nmIn.tok \in Falsy \/ (nmIn.arg \in Falsy /\ nmIn.envdb \in Falsy))
        /\ nmResult.raised = "ValueError" => nmResult.requests = 0
        /\ (nmIn.arg \notin Falsy /\ nmResult.raised = "none") => nmResult.dbid = nmIn.arg
        /\ (nmIn.arg \in Falsy /\ nmResult.raised = "none") => nmResult.dbid = nmIn.envdb

C19_Witness ==
    /\ nmResult.started /\ nmResult.raised = "none"
    /\ nmIn.arg \notin Falsy /\ nmIn.envdb \notin Falsy /\ nmIn.arg # nmIn.envdb
    /\ nmResult.dbid = nmIn.arg
====
